---- MODULE Spec2Model ----
(***************************************************************************)
(* EnergyGrid data aggregator: the rate limiter (RateLimiter), the         *)
(* retrying batch fetch and the orchestration of a run (DataAggregator),   *)
(* the API client's requests (ApiClient) and the batch utilities           *)
(* (BatchManager).                                                         *)
(*                                                                         *)
(* JavaScript runs one callback at a time and runs it to completion: all   *)
(* the code between two awaits executes with nothing in between.  Each     *)
(* action below is therefore one callback of the event loop (a caller's    *)
(* schedule() call, a timer that fires, a request or task that settles)    *)
(* together with all the synchronous code and promise reactions it runs.   *)
(* The synchronous code is written as operators that take the program      *)
(* state as a record s and return the state after the call.                *)
(***************************************************************************)
EXTENDS Integers, Sequences, FiniteSets, TLC

VARIABLES
    now,              \* Date.now(), in ms
    queue,            \* RateLimiter.queue: entries {task, resolve, reject}
    isProcessing,     \* RateLimiter.isProcessing
    lastRequestTime,  \* RateLimiter.lastRequestTime
    loops,            \* the _processQueue invocations that are past the guard
    tasks,            \* the task closures and the promise schedule() returned
    ex,               \* the executeAll invocation
    pc,               \* where DataAggregator.run is
    serialNumbers,    \* run's serialNumbers
    batches,          \* run's batches
    bt,               \* per batch: the fetchBatchWithRetry invocation, and
                      \* history: its requests, failures and their messages
    probe,            \* the connectivity probe's request
    errors,           \* DataAggregator.errors
    results,          \* DataAggregator.results
    report,           \* the summary saveResults builds, and what was written
    submitOrder,      \* history: task ids in the order schedule() was called
    startOrder,       \* history: task ids in the order task() was invoked
    prevRequestTime,  \* history: lastRequestTime before its latest assignment
    call,             \* a call of a BatchManager function on its own
    lastRequest,      \* history: the last request sent to the API
    drains            \* history: the _processQueue invocations that passed
                      \* the guard so far (the latest is number drains)

vars == <<now, queue, isProcessing, lastRequestTime, loops, tasks, ex, pc,
          serialNumbers, batches, bt, probe, errors, results, report,
          submitOrder, startOrder, prevRequestTime, call, lastRequest, drains>>

---------------------------------------------------------------------------
(* config/constants.js *)

REQUEST_INTERVAL_MS == 1000
MAX_RETRIES == 3
RETRY_DELAY_MS == 2000
DEVICE_SN_PREFIX == "SN-"
API_ENDPOINT == "/device/real/query"
API_TOKEN == "interview_token_123"

\* Scaled-down population (500 in constants.js) and the batch size: two
\* batches, of 10 and 3 serial numbers.
TOTAL_DEVICES == 13
BATCH_SIZE == 10

(* Bounds of the model *)

\* The clock advances in steps of this many ms.
TickSteps == {500}
\* Tasks submitted to the rate limiter by its callers.
MaxTasks == 3
\* Longest time a caller's task runs, in ms.
MaxTaskMs == 1500
\* Longest time a request is in flight, in ms (under the 5000 ms timeout).
MaxFetchMs == 500
\* Longest time a setTimeout callback runs after its delay has passed, in ms
\* (timers run when the loop gets to them, and Date.now() goes on meanwhile).
MaxLateMs == 500
\* How many ms short of its delay, on the Date.now() clock, a setTimeout
\* callback can run (node runs timers on the loop's monotonic millisecond
\* clock, the code reads Date.now()).
MaxEarlyMs == 1
\* Longest time, in ms, the clock goes on inside the callback that starts a
\* batch's task, between `this.lastRequestTime = Date.now()` and the
\* Date.now() of generateWithTimestamp.
MaxStampLagMs == 1
StampLags == {0, MaxStampLagMs}

\* BatchManager called on its own: the arrays have up to MaxLen elements,
\* the counts go up to MaxCount (and a few larger ones), the loop of
\* createBatches is followed for up to MaxIterations passes.
MaxLen == 3
MaxCount == 12
MaxIterations == MaxLen + 2
Elements == {"a", "b"}
BatchSizes == (0 - 1)..(MaxLen + 1)
Counts == (0..MaxCount) \cup {101, 500, 1001}
Prefixes == {"SN-", "D"}

\* The messages an attempt can fail with (ApiClient.fetchDeviceData's throws).
ErrorMessages == {"API Error [429]: Unknown error",
                  "No response from server. Is the mock API running?"}

---------------------------------------------------------------------------
(* The program state as one record, and its assignment to the variables.
   lag is an input of the callback that runs, not a variable: the ms that
   pass in it between the Date.now() of _processQueue and the Date.now() of
   generateWithTimestamp. *)

State ==
    [now |-> now, queue |-> queue, isProcessing |-> isProcessing,
     lastRequestTime |-> lastRequestTime, loops |-> loops, tasks |-> tasks,
     ex |-> ex, pc |-> pc, serialNumbers |-> serialNumbers,
     batches |-> batches, bt |-> bt, probe |-> probe, errors |-> errors,
     results |-> results, report |-> report, submitOrder |-> submitOrder,
     startOrder |-> startOrder, prevRequestTime |-> prevRequestTime,
     call |-> call, lastRequest |-> lastRequest, drains |-> drains,
     lag |-> 0]

\* The state a callback runs in when lag ms pass in it between its two
\* readings of the clock.
Callback(lag) == [State EXCEPT !.lag = lag]

Commit(s) ==
    /\ now' = s.now
    /\ queue' = s.queue
    /\ isProcessing' = s.isProcessing
    /\ lastRequestTime' = s.lastRequestTime
    /\ loops' = s.loops
    /\ tasks' = s.tasks
    /\ ex' = s.ex
    /\ pc' = s.pc
    /\ serialNumbers' = s.serialNumbers
    /\ batches' = s.batches
    /\ bt' = s.bt
    /\ probe' = s.probe
    /\ errors' = s.errors
    /\ results' = s.results
    /\ report' = s.report
    /\ submitOrder' = s.submitOrder
    /\ startOrder' = s.startOrder
    /\ prevRequestTime' = s.prevRequestTime
    /\ call' = s.call
    /\ lastRequest' = s.lastRequest
    /\ drains' = s.drains

---------------------------------------------------------------------------
(* utils/batchManager.js *)

Digits == <<"0", "1", "2", "3", "4", "5", "6", "7", "8", "9">>

\* Number.prototype.toString(): the decimal digits of i >= 0.
RECURSIVE toString(_)
toString(i) ==
    IF i < 10 THEN Digits[i + 1] ELSE toString(i \div 10) \o Digits[(i % 10) + 1]

\* Variant: no padding.
padStartNone(str, width) == str

\* String.prototype.padStart(width, "0"): no change once str is width long.
RECURSIVE padStart(_, _)
padStart(str, width) ==
    IF Len(str) >= width THEN str ELSE padStart("0" \o str, width)

\* for (i = 0; i < count; i++) serialNumbers.push(prefix + padded(i))
generateSerialNumbers(count, prefix) ==
    [k \in 1..count |-> prefix \o padStart(toString(k - 1), 3)]

\* An index of slice made relative to the array: a negative one counts from
\* the end, and both are clamped to 0..length.
relativeIndex(index, len) ==
    IF index < 0
    THEN (IF len + index > 0 THEN len + index ELSE 0)
    ELSE (IF index < len THEN index ELSE len)

\* Array.prototype.slice(from, to), 0-based and end-exclusive.
slice(array, from, to) ==
    LET lo == relativeIndex(from, Len(array))
        hi == relativeIndex(to, Len(array))
    IN  IF hi <= lo THEN <<>> ELSE [k \in 1..(hi - lo) |-> array[lo + k]]

\* for (i = 0; i < array.length; i += batchSize) batches.push(slice(i, i + batchSize))
RECURSIVE createBatchesFrom(_, _, _)
createBatchesFrom(array, batchSize, i) ==
    IF i < Len(array)
    THEN <<slice(array, i, i + batchSize)>>
             \o createBatchesFrom(array, batchSize, i + batchSize)
    ELSE <<>>

createBatches(array, batchSize) == createBatchesFrom(array, batchSize, 0)

---------------------------------------------------------------------------
(* utils/signatureGenerator.js *)

\* generate(url, token, timestamp): the MD5 digest of url + token +
\* timestamp, kept as the digest of that payload.
generate(url, token, timestamp) == [md5 |-> url \o token \o timestamp]

\* Before the first request.
NoRequest ==
    [n |-> 0, signature |-> generate("", "", ""), timestamp |-> "", at |-> 0,
     kind |-> "none", batch |-> 0]

\* generateWithTimestamp(endpoint, token): timestamp = Date.now().toString().
generateWithTimestamp(s) ==
    LET timestamp == toString(s.now)
    IN  [signature |-> generate(API_ENDPOINT, API_TOKEN, timestamp),
         timestamp |-> timestamp]

---------------------------------------------------------------------------
(* services/apiClient.js *)

\* axios.post with the signature and timestamp headers: the request goes
\* out.  The history keeps it, numbered, with when and for what it went.
post(s, headers, kind, b) ==
    [s EXCEPT !.lastRequest = [n |-> s.lastRequest.n + 1,
                               signature |-> headers.signature,
                               timestamp |-> headers.timestamp,
                               at |-> s.now, kind |-> kind, batch |-> b]]

\* The device records the transport returns for the serial numbers asked.
Records(sn_list) == [k \in 1..Len(sn_list) |-> [sn |-> sn_list[k]]]

\* What response.data.data is when the body of a 200 response has no data
\* field.  Array.prototype.flat() keeps an undefined entry of batchResults
\* as one element, as it keeps the element of [undefined]: the value is
\* carried as the list of that one element.
Undefined == [sn |-> "undefined"]

\* What a successful response can carry: a record per serial number, or no
\* data field at all.
Responses(sn_list) == {Records(sn_list), <<Undefined>>}

\* fetchDeviceData up to its await: the signature and timestamp are made
\* from Date.now() and the request is sent.
fetchDeviceData(s, b) ==
    LET s1 == post(s, generateWithTimestamp(s),
                   IF s.bt[b].retryCount = 0 THEN "first" ELSE "retry", b)
    IN  [s1 EXCEPT !.bt[b].phase = "fetching",
                   !.bt[b].sentAt = s.now,
                   !.bt[b].calls = @ + 1]

\* testConnection up to its await: fetchDeviceData(['SN-000']).
testConnection(s) ==
    LET s1 == post(s, generateWithTimestamp(s), "probe", 0)
    IN  [s1 EXCEPT !.probe = [st |-> "inflight", sentAt |-> s.now,
                              sn_list |-> <<"SN-000">>]]

---------------------------------------------------------------------------
(* core/aggregator.js: fetchBatchWithRetry *)

\* fetchBatchWithRetry(batch, batchIndex, retryCount) up to its first await.
\* b is the batch's 1-based position, batchIndex = b - 1.
fetchBatchWithRetry(s, b, retryCount) ==
    fetchDeviceData([s EXCEPT !.bt[b].retryCount = retryCount], b)

\* task(): the closure the rate limiter was given is called.  A batch's
\* closure goes on to fetchDeviceData, which reads the clock again: s.lag ms
\* after _processQueue read it for lastRequestTime.
invokeTask(s, t) ==
    LET s1 == [s EXCEPT !.tasks[t].st = "running",
                        !.tasks[t].startedAt = s.now,
                        !.tasks[t].drain = s.drains,
                        !.startOrder = Append(@, t)]
    IN  IF s.tasks[t].kind = "batch"
        THEN fetchBatchWithRetry([s1 EXCEPT !.now = @ + s.lag],
                                 s.tasks[t].batch, 0)
        ELSE s1

---------------------------------------------------------------------------
(* services/rateLimiter.js *)

intervalMs == REQUEST_INTERVAL_MS

_calculateDelay(s) ==
    LET timeSinceLastRequest == s.now - s.lastRequestTime
    IN  IF timeSinceLastRequest >= intervalMs
        THEN 0
        ELSE intervalMs - timeSinceLastRequest

\* _processQueue after the delay: lastRequestTime = Date.now(); await task().
\* e is the entry shifted from the queue; the invocation now awaits the task.
startTask(s, e) ==
    invokeTask([s EXCEPT !.prevRequestTime = s.lastRequestTime,
                         !.lastRequestTime = s.now,
                         !.loops = @ \cup {[entry |-> e, at |-> "task",
                                            wake |-> s.now]}],
               e.task)

\* Variant: isProcessing is left set when the loop ends.
loopIterationNoReset(s) ==
    IF Len(s.queue) > 0
    THEN LET e == Head(s.queue)
             s1 == [s EXCEPT !.queue = Tail(@)]
             delay == _calculateDelay(s1)
         IN  IF delay > 0
             THEN [s1 EXCEPT !.loops = @ \cup {[entry |-> e, at |-> "sleep",
                                                wake |-> s.now + delay]}]
             ELSE startTask(s1, e)
    ELSE s

\* One pass of the while loop of _processQueue, up to its next await; with
\* the queue empty the loop ends and isProcessing is reset.
loopIteration(s) ==
    IF Len(s.queue) > 0
    THEN LET e == Head(s.queue)
             s1 == [s EXCEPT !.queue = Tail(@)]
             delay == _calculateDelay(s1)
         IN  IF delay > 0
             THEN [s1 EXCEPT !.loops = @ \cup {[entry |-> e, at |-> "sleep",
                                                wake |-> s.now + delay]}]
             ELSE startTask(s1, e)
    ELSE [s EXCEPT !.isProcessing = FALSE]

\* Variant: the guard tests the queue only, not isProcessing.
canProcessNoFlag(s) == ~(Len(s.queue) = 0)

\* The guard of _processQueue.
canProcess(s) == ~(s.isProcessing \/ Len(s.queue) = 0)

\* Variant: isProcessing is not set when the loop is entered.
processQueueFlagNotSet(s) ==
    IF canProcess(s)
    THEN loopIteration([s EXCEPT !.drains = @ + 1])
    ELSE s

_processQueue(s) ==
    IF canProcess(s)
    THEN loopIteration([s EXCEPT !.isProcessing = TRUE, !.drains = @ + 1])
    ELSE s

\* Variant: queue.unshift instead of queue.push.
enqueueFront(q, e) == <<e>> \o q

\* queue.push({task, resolve, reject})
enqueue(q, e) == Append(q, e)

\* schedule(task): the executor of the returned promise runs at once.
\* (History: submittedTo is the drain loop active at the call, 0 for none.)
schedule(s, t) ==
    _processQueue([s EXCEPT !.queue = enqueue(@, [task |-> t, promise |-> t]),
                            !.tasks[t].promise = "pending",
                            !.tasks[t].submittedTo =
                                IF s.loops # {} THEN s.drains ELSE 0,
                            !.submitOrder = Append(@, t)])

---------------------------------------------------------------------------
(* core/aggregator.js: the end of a run *)

\* Variant: the arrays are concatenated last first.
RECURSIVE flatReversed(_)
flatReversed(arrays) ==
    IF arrays = <<>> THEN <<>> ELSE flatReversed(Tail(arrays)) \o Head(arrays)

\* Array.prototype.flat() of an array of arrays.
RECURSIVE flat(_)
flat(arrays) ==
    IF arrays = <<>> THEN <<>> ELSE Head(arrays) \o flat(Tail(arrays))

\* fetchAllData after executeAll returned, then run up to saveResults'
\* await of fs.mkdir: this.results = data.
fetchAllDataResume(s) ==
    LET allData == flat(s.ex.results)
    IN  [s EXCEPT !.results = allData, !.pc = "mkdir"]

\* Variant: failedFetches is the number of devices without a record.
saveResultsCountingDevices(s) ==
    LET summary == [totalDevices |-> TOTAL_DEVICES,
                    successfulFetches |-> Len(s.results),
                    failedFetches |-> TOTAL_DEVICES - Len(s.results),
                    data |-> s.results,
                    errors |-> s.errors]
    IN  [s EXCEPT !.report.summaries = Append(@, summary),
                  !.pc = "writeFile"]

\* saveResults after fs.mkdir: the summary is built and fs.writeFile awaited.
saveResults(s) ==
    LET summary == [totalDevices |-> TOTAL_DEVICES,
                    successfulFetches |-> Len(s.results),
                    failedFetches |-> Len(s.errors),
                    data |-> s.results,
                    errors |-> s.errors]
    IN  [s EXCEPT !.report.summaries = Append(@, summary),
                  !.pc = "writeFile"]

\* The catch of run: Logger.error and process.exit(1).
fatalError(s) == [s EXCEPT !.pc = "fatal"]

\* Variant: the records are not looked at.
displaySummaryCountsOnly(s) == [s EXCEPT !.pc = "done"]

\* run after saveResults returned (its catch only logs): displaySummary(data)
\* reads d.status of every element, which throws on undefined and takes run
\* to its catch; else the run ends with the success message.
displaySummary(s) ==
    IF \E k \in 1..Len(s.results) : s.results[k] = Undefined
    THEN fatalError(s)
    ELSE [s EXCEPT !.pc = "done"]

---------------------------------------------------------------------------
(* services/rateLimiter.js: executeAll *)

\* Variant: the loop stops one task short (i < tasks.length - 1).
executeAllNextButLast(s) ==
    IF s.ex.i < Len(s.ex.tasks) - 1
    THEN schedule(s, s.ex.tasks[s.ex.i + 1])
    ELSE LET s1 == [s EXCEPT !.ex.st = "returned"]
         IN  IF s.pc = "fetchAllData" THEN fetchAllDataResume(s1) ELSE s1

\* The head of the for loop: schedule the next task and await it, or return
\* the results to the caller (fetchAllData when a run is in progress).
executeAllNext(s) ==
    IF s.ex.i < Len(s.ex.tasks)
    THEN schedule(s, s.ex.tasks[s.ex.i + 1])
    ELSE LET s1 == [s EXCEPT !.ex.st = "returned"]
         IN  IF s.pc = "fetchAllData" THEN fetchAllDataResume(s1) ELSE s1

executeAll(s, taskIds) ==
    executeAllNext([s EXCEPT !.ex = [st |-> "running", tasks |-> taskIds,
                                     i |-> 0, results |-> <<>>,
                                     progress |-> <<>>, error |-> <<>>]])

\* Variant: results.unshift instead of results.push.
pushResultFront(rs, result) == <<result>> \o rs

\* results.push(result)
pushResult(rs, result) == Append(rs, result)

\* Variant: onProgress(i, tasks.length).
onProgressArgsZeroBased(i, n) == <<i, n>>

\* The arguments of onProgress(i + 1, tasks.length), i the 0-based loop index.
onProgressArgs(i, n) == <<i + 1, n>>

\* The call of the progress callback: the observer notes its arguments and
\* how many tasks the rate limiter has started and settled by then.
onProgress(s, args) ==
    [s EXCEPT !.ex.progress =
                  Append(@, [args |-> args,
                             started |-> Len(s.startOrder),
                             settled |-> Cardinality(
                                 {t \in 1..Len(s.tasks) :
                                      s.tasks[t].st = "settled"})])]

\* Variant: a rejection is swallowed and the loop goes on with the next task.
executeAllResumeSwallowing(s, p) ==
    IF s.tasks[p].promise = "resolved"
    THEN executeAllNext(
             [onProgress([s EXCEPT !.ex.results = pushResult(@, s.tasks[p].pval)],
                         onProgressArgs(s.ex.i, Len(s.ex.tasks)))
                 EXCEPT !.ex.i = @ + 1])
    ELSE executeAllNext([s EXCEPT !.ex.i = @ + 1])

\* executeAll after the promise of schedule(tasks[i]) settled: the result is
\* pushed and onProgress(i + 1, tasks.length) called; a rejection leaves the
\* function with the promise's error (and, in a run, reaches the catch of
\* run).
executeAllResume(s, p) ==
    IF s.tasks[p].promise = "resolved"
    THEN executeAllNext(
             [onProgress([s EXCEPT !.ex.results = pushResult(@, s.tasks[p].pval)],
                         onProgressArgs(s.ex.i, Len(s.ex.tasks)))
                 EXCEPT !.ex.i = @ + 1])
    ELSE LET s1 == [s EXCEPT !.ex.st = "rejected",
                             !.ex.error = s.tasks[p].pval]
         IN  IF s.pc = "fetchAllData" THEN fatalError(s1) ELSE s1

---------------------------------------------------------------------------
(* services/rateLimiter.js: _processQueue after the task settled *)

\* resolve(result) or reject(error) of the entry the loop took.
settlePromise(s, e, out, val) ==
    [s EXCEPT !.tasks[e.promise].promise =
                  IF out = "ok" THEN "resolved" ELSE "rejected",
              !.tasks[e.promise].pval = val]

\* Variant: no try/catch, so a task's error leaves _processQueue: nothing is
\* rejected, the loop is gone and isProcessing is not reset.
afterTaskNoCatch(s, e, out, val) ==
    IF out = "ok" THEN loopIteration(settlePromise(s, e, out, val)) ELSE s

\* The try/catch around the task, then the next pass of the loop.
afterTask(s, e, out, val) == loopIteration(settlePromise(s, e, out, val))

\* Task t settled with outcome out ("ok": returned val, "err": threw val).
\* The invocation of _processQueue awaiting it goes on; then the reactions
\* of the entry's promise run (executeAll's await).
taskSettled(s, t, out, val) ==
    LET f == CHOOSE g \in s.loops : g.at = "task" /\ g.entry.task = t
        s1 == [s EXCEPT !.tasks[t].st = "settled",
                        !.tasks[t].out = out,
                        !.tasks[t].val = val,
                        !.tasks[t].startedAt = 0,
                        !.loops = @ \ {f}]
        s2 == afterTask(s1, f.entry, out, val)
        p == f.entry.promise
    IN  IF s2.tasks[p].waiter = "executeAll" /\ s2.tasks[p].promise # "pending"
        THEN executeAllResume(s2, p)
        ELSE s2

---------------------------------------------------------------------------
(* core/aggregator.js: fetchBatchWithRetry after the request settled *)

\* Variant: one retry too many.
shouldRetryOffByOne(retryCount) == retryCount <= MAX_RETRIES

shouldRetry(retryCount) == retryCount < MAX_RETRIES

\* Variant: the recursive call passes retryCount on unchanged.
sameRetryCount(retryCount) == retryCount

\* The retryCount of the recursive call.
nextRetryCount(retryCount) == retryCount + 1

\* Variant: the failure is recorded and the error thrown again.
retriesExhaustedThrows(s, b, message) ==
    LET batchIndex == b - 1
        s1 == [s EXCEPT !.errors = Append(@, [batch |-> batchIndex + 1,
                                              serialNumbers |-> s.batches[b],
                                              error |-> message]),
                        !.bt[b].phase = "failed",
                        !.bt[b].sentAt = 0]
    IN  taskSettled(s1, s.bt[b].task, "err", <<[error |-> message]>>)

\* Variant: the entry carries the message of the first failed attempt.
retriesExhaustedFirstError(s, b, message) ==
    LET batchIndex == b - 1
        s1 == [s EXCEPT !.errors = Append(@, [batch |-> batchIndex + 1,
                                              serialNumbers |-> s.batches[b],
                                              error |-> s.bt[b].firstError]),
                        !.bt[b].phase = "failed",
                        !.bt[b].sentAt = 0]
    IN  taskSettled(s1, s.bt[b].task, "ok", <<>>)

\* Max retries reached: the failure is recorded and [] returned.
retriesExhausted(s, b, message) ==
    LET batchIndex == b - 1
        s1 == [s EXCEPT !.errors = Append(@, [batch |-> batchIndex + 1,
                                              serialNumbers |-> s.batches[b],
                                              error |-> message]),
                        !.bt[b].phase = "failed",
                        !.bt[b].sentAt = 0]
    IN  taskSettled(s1, s.bt[b].task, "ok", <<>>)

\* The request succeeded: return data.
fetchSucceeded(s, b, data) ==
    taskSettled([s EXCEPT !.bt[b].phase = "succeeded", !.bt[b].data = data,
                          !.bt[b].firstError = "", !.bt[b].lastError = "",
                          !.bt[b].sentAt = 0],
                s.bt[b].task, "ok", data)

\* Variant: the wait doubles with every retry.
retryDelayDoubling(retryCount) == RETRY_DELAY_MS * (2 ^ retryCount)

\* The delay of the setTimeout before the retry that follows the failed
\* attempt number retryCount.
retryDelay(retryCount) == RETRY_DELAY_MS

\* Variant: no catch, the error of the request leaves fetchBatchWithRetry.
fetchFailedThrows(s, b, message) ==
    taskSettled([s EXCEPT !.bt[b].fails = @ + 1, !.bt[b].phase = "failed",
                          !.bt[b].firstError =
                              IF s.bt[b].fails = 0 THEN message ELSE @,
                          !.bt[b].lastError = message,
                          !.bt[b].sentAt = 0],
                s.bt[b].task, "err", <<[error |-> message]>>)

\* The request failed: wait RETRY_DELAY_MS and retry, or give up.
fetchFailed(s, b, message) ==
    LET s1 == [s EXCEPT !.bt[b].fails = @ + 1,
                        !.bt[b].firstError =
                            IF s.bt[b].fails = 0 THEN message ELSE @,
                        !.bt[b].lastError = message]
    IN  IF shouldRetry(s.bt[b].retryCount)
        THEN [s1 EXCEPT !.bt[b].phase = "retryWait",
                        !.bt[b].sentAt = 0,
                        !.bt[b].wake = s.now + retryDelay(s.bt[b].retryCount)]
        ELSE retriesExhausted(s1, b, message)

---------------------------------------------------------------------------
(* core/aggregator.js: fetchAllData and run *)

NewTask(kind, b, waiter) ==
    [kind |-> kind, batch |-> b, st |-> "created", out |-> "none",
     val |-> <<>>, promise |-> "none", pval |-> <<>>, waiter |-> waiter,
     startedAt |-> 0, submittedTo |-> 0, drain |-> 0]

\* tasks = batches.map(...), then executeAll(tasks, onProgress) up to its await.
fetchAllData(s) ==
    LET n == Len(s.batches)
        first == Len(s.tasks)
        s1 == [s EXCEPT
                 !.tasks = @ \o [b \in 1..n |-> NewTask("batch", b, "executeAll")],
                 !.bt = [b \in 1..n |->
                            [task |-> first + b, retryCount |-> 0,
                             phase |-> "pending", sentAt |-> 0, wake |-> 0,
                             calls |-> 0, fails |-> 0, data |-> <<>>,
                             firstError |-> "", lastError |-> ""]],
                 !.pc = "fetchAllData"]
    IN  executeAll(s1, [b \in 1..n |-> first + b])

\* Variant: the result of testConnection is not looked at.
runIgnoringProbe(s, isConnected) ==
    LET sns == generateSerialNumbers(TOTAL_DEVICES, DEVICE_SN_PREFIX)
    IN  fetchAllData([s EXCEPT !.serialNumbers = sns,
                               !.batches = createBatches(sns, BATCH_SIZE)])

\* run after testConnection returned isConnected: the throw that ends the
\* run, or steps 2, 3 and 4 up to the first await.
run(s, isConnected) ==
    IF ~isConnected
    THEN fatalError(s)
    ELSE LET sns == generateSerialNumbers(TOTAL_DEVICES, DEVICE_SN_PREFIX)
         IN  fetchAllData([s EXCEPT !.serialNumbers = sns,
                                    !.batches = createBatches(sns, BATCH_SIZE)])

---------------------------------------------------------------------------
\* No BatchManager function is being called on its own.
NoCall == [fn |-> "none"]

(* Initial state: the objects as their constructors leave them.  Date.now() *)
(* is far above intervalMs while lastRequestTime starts at 0, so the first  *)
(* task never waits; the clock starts at the smallest such value.           *)

Init ==
    /\ now = intervalMs
    /\ queue = <<>>
    /\ isProcessing = FALSE
    /\ lastRequestTime = 0
    /\ loops = {}
    /\ tasks = <<>>
    /\ ex = [st |-> "none", tasks |-> <<>>, i |-> 0, results |-> <<>>,
             progress |-> <<>>, error |-> <<>>]
    /\ pc = "init"
    /\ serialNumbers = <<>>
    /\ batches = <<>>
    /\ bt = <<>>
    /\ probe = [st |-> "none", sentAt |-> 0, sn_list |-> <<>>]
    /\ errors = <<>>
    /\ results = <<>>
    /\ report = [summaries |-> <<>>, written |-> FALSE]
    /\ submitOrder = <<>>
    /\ startOrder = <<>>
    /\ prevRequestTime = 0
    /\ call = NoCall
    /\ lastRequest = NoRequest
    /\ drains = 0

---------------------------------------------------------------------------
(* Events of the rate limiter *)

\* What a caller's task returns, or throws: a value naming the task.
TaskValue(t) == <<[task |-> t]>>

\* A caller creates a task and calls schedule(task).
Schedule ==
    /\ Len(tasks) < MaxTasks
    /\ LET t == Len(tasks) + 1
       IN  Commit(schedule([State EXCEPT
                                !.tasks = Append(@, NewTask("plain", 0, "caller"))],
                           t))

\* A caller creates n tasks and calls executeAll(tasks, onProgress).
ExecuteAll ==
    /\ ex.st = "none"
    /\ Len(tasks) = 0
    /\ \E n \in 0..MaxTasks :
           Commit(executeAll(
               [State EXCEPT !.tasks = [t \in 1..n |->
                                           NewTask("plain", 0, "executeAll")]],
               [t \in 1..n |-> t]))

\* The callback of a timer set for wake can run: its delay has passed on
\* the Date.now() clock, or all but MaxEarlyMs of it.
TimerDue(wake) == now >= wake - MaxEarlyMs

\* The timer of _sleep(delay) fires: the loop goes on to run its task.
SleepDue(f) == f.at = "sleep" /\ TimerDue(f.wake)

SleepDone ==
    \E f \in loops :
        /\ SleepDue(f)
        /\ \E lag \in StampLags :
               Commit(startTask([Callback(lag) EXCEPT !.loops = @ \ {f}],
                                f.entry))

\* A caller's task returns.
TaskResolve ==
    \E t \in 1..Len(tasks) :
        /\ tasks[t].kind = "plain"
        /\ tasks[t].st = "running"
        /\ Commit(taskSettled(State, t, "ok", TaskValue(t)))

\* A caller's task throws (its promise rejects).
TaskReject ==
    \E t \in 1..Len(tasks) :
        /\ tasks[t].kind = "plain"
        /\ tasks[t].st = "running"
        /\ Commit(taskSettled(State, t, "err", TaskValue(t)))

\* d more ms can pass with something waiting for them: a _sleep or retry
\* timer whose callback has not run (it runs from MaxEarlyMs before its
\* delay has passed to MaxLateMs after), a request that can still be in flight then, a
\* caller's task that can still be running then.
CanPass(d) ==
    \/ \E f \in loops : f.at = "sleep" /\ now + d - f.wake <= MaxLateMs
    \/ \E b \in 1..Len(bt) :
          \/ bt[b].phase = "retryWait" /\ now + d - bt[b].wake <= MaxLateMs
          \/ bt[b].phase = "fetching" /\ now + d - bt[b].sentAt <= MaxFetchMs
    \/ probe.st = "inflight" /\ now + d - probe.sentAt <= MaxFetchMs
    \/ \E t \in 1..Len(tasks) :
          /\ tasks[t].kind = "plain"
          /\ tasks[t].st = "running"
          /\ now + d - tasks[t].startedAt <= MaxTaskMs

\* The times the pending timers (_sleep, retry) were set for.
TimerWakes ==
    {f.wake : f \in {g \in loops : g.at = "sleep"}}
        \cup {bt[b].wake : b \in {c \in 1..Len(bt) : bt[c].phase = "retryWait"}}

\* The pending timers whose callback can run before its delay has passed.
EarlyWakes == {w \in TimerWakes : now < w /\ TimerDue(w)}

\* The steps of the clock: a step of TickSteps, or up to the first ms at
\* which a pending timer's callback can run, and from there up to the ms
\* the timer was set for.
ClockSteps ==
    IF EarlyWakes # {} THEN {w - now : w \in EarlyWakes}
    ELSE TickSteps
             \cup {w - MaxEarlyMs - now :
                      w \in {x \in TimerWakes : x - MaxEarlyMs > now}}

TimePending == \E d \in ClockSteps : CanPass(d)

\* Time passes.
Tick ==
    /\ \E d \in ClockSteps : CanPass(d) /\ now' = now + d
    /\ UNCHANGED <<queue, isProcessing, lastRequestTime, loops, tasks, ex, pc,
                   serialNumbers, batches, bt, probe, errors, results, report,
                   submitOrder, startOrder, prevRequestTime, call,
                   lastRequest, drains>>

\* Time passes while the rate limiter is idle and its callers have tasks
\* left to submit (no longer than the interval: more changes nothing).
IdleTick ==
    /\ loops = {}
    /\ Len(tasks) < MaxTasks
    /\ now - lastRequestTime < intervalMs
    /\ \E d \in TickSteps : now' = now + d
    /\ UNCHANGED <<queue, isProcessing, lastRequestTime, loops, tasks, ex, pc,
                   serialNumbers, batches, bt, probe, errors, results, report,
                   submitOrder, startOrder, prevRequestTime, call,
                   lastRequest, drains>>

---------------------------------------------------------------------------
(* Events of a run of the aggregator *)

\* run() is called: the connectivity probe is sent.
RunStart ==
    /\ pc = "init"
    /\ Commit(testConnection([State EXCEPT !.pc = "probe"]))

ProbeInFlight == pc = "probe" /\ probe.st = "inflight"

\* The probe's request succeeded: testConnection returns true.
ProbeOk ==
    /\ ProbeInFlight
    /\ \E lag \in StampLags :
           Commit(run([Callback(lag) EXCEPT !.probe.st = "ok",
                                            !.probe.sentAt = 0], TRUE))

\* The probe's request failed: testConnection returns false and run throws.
ProbeFail ==
    /\ ProbeInFlight
    /\ Commit(run([State EXCEPT !.probe.st = "failed", !.probe.sentAt = 0],
                  FALSE))

Fetching(b) == bt[b].phase = "fetching"

\* The request of a batch succeeded.
FetchOk ==
    \E b \in 1..Len(bt) :
        /\ Fetching(b)
        /\ \E data \in Responses(batches[b]), lag \in StampLags :
               Commit(fetchSucceeded(Callback(lag), b, data))

\* The request of a batch failed (an error status, no response, a timeout).
FetchFail ==
    \E b \in 1..Len(bt) :
        /\ Fetching(b)
        /\ \E message \in ErrorMessages, lag \in StampLags :
               Commit(fetchFailed(Callback(lag), b, message))

\* The retry timer fires: fetchBatchWithRetry(batch, batchIndex, retryCount + 1).
RetryDue(b) == bt[b].phase = "retryWait" /\ TimerDue(bt[b].wake)

RetryTimer ==
    \E b \in 1..Len(bt) :
        /\ RetryDue(b)
        /\ Commit(fetchBatchWithRetry([State EXCEPT !.bt[b].wake = 0], b,
                                      nextRetryCount(bt[b].retryCount)))

\* fs.mkdir returned: saveResults builds the summary and writes it.
MkdirDone ==
    /\ pc = "mkdir"
    /\ Commit(saveResults(State))

\* fs.mkdir rejected: the catch of saveResults logs, no summary is built and
\* run goes on to displaySummary.
MkdirFail ==
    /\ pc = "mkdir"
    /\ Commit(displaySummary(State))

\* fs.writeFile returned: the report is on disk; displaySummary, and run is
\* over.
WriteDone ==
    /\ pc = "writeFile"
    /\ Commit(displaySummary([State EXCEPT !.report.written = TRUE]))

\* fs.writeFile rejected: the catch of saveResults logs, nothing is written
\* and run goes on to displaySummary.
WriteFail ==
    /\ pc = "writeFile"
    /\ Commit(displaySummary(State))

---------------------------------------------------------------------------
(* BatchManager's functions called on their own *)

programVars == <<now, queue, isProcessing, lastRequestTime, loops, tasks, ex,
                 pc, serialNumbers, batches, bt, probe, errors, results,
                 report, submitOrder, startOrder, prevRequestTime,
                 lastRequest, drains>>

Arrays == UNION {[1..n -> Elements] : n \in 0..MaxLen}

\* createBatches(array, batchSize) is called; input is the array as it was
\* at the first call and first what the first call returned.
createBatchesCalled(array, batchSize) ==
    [fn |-> "createBatches", st |-> "called", n |-> 1, input |-> array,
     array |-> array, batchSize |-> batchSize, i |-> 0, batches |-> <<>>,
     first |-> <<>>]

\* generateSerialNumbers(count, prefix) is called.
generateSerialNumbersCalled(count, prefix) ==
    [fn |-> "generateSerialNumbers", st |-> "called", n |-> 1,
     count |-> count, prefix |-> prefix, result |-> <<>>, first |-> <<>>]

UtilInit ==
    /\ now = intervalMs
    /\ queue = <<>>
    /\ isProcessing = FALSE
    /\ lastRequestTime = 0
    /\ loops = {}
    /\ tasks = <<>>
    /\ ex = [st |-> "none", tasks |-> <<>>, i |-> 0, results |-> <<>>,
             progress |-> <<>>, error |-> <<>>]
    /\ pc = "init"
    /\ serialNumbers = <<>>
    /\ batches = <<>>
    /\ bt = <<>>
    /\ probe = [st |-> "none", sentAt |-> 0, sn_list |-> <<>>]
    /\ errors = <<>>
    /\ results = <<>>
    /\ report = [summaries |-> <<>>, written |-> FALSE]
    /\ submitOrder = <<>>
    /\ startOrder = <<>>
    /\ prevRequestTime = 0
    /\ lastRequest = NoRequest
    /\ drains = 0
    /\ call \in {createBatchesCalled(array, batchSize) :
                     array \in Arrays, batchSize \in BatchSizes}
                \cup {generateSerialNumbersCalled(count, prefix) :
                          count \in Counts, prefix \in Prefixes}

\* Variant: the loop advances by one element instead of batchSize.
createBatchesPassByOne(c) ==
    [c EXCEPT !.batches = Append(@, slice(c.array, c.i, c.i + c.batchSize)),
              !.i = @ + 1]

\* One pass of the for loop of createBatches: the slice is pushed, then
\* i += batchSize.
createBatchesPass(c) ==
    [c EXCEPT !.batches = Append(@, slice(c.array, c.i, c.i + c.batchSize)),
              !.i = @ + c.batchSize]

\* The test of the for loop.
createBatchesTest(c) == c.i < Len(c.array)

\* createBatches up to its loop: const batches = [], let i = 0.
CreateBatchesEnter ==
    /\ call.fn = "createBatches"
    /\ call.st = "called"
    /\ call' = [call EXCEPT !.st = "loop", !.i = 0, !.batches = <<>>]
    /\ UNCHANGED programVars

\* The loop test holds and a pass is made.  (The passes of a loop that does
\* not end are followed up to MaxIterations.)
CreateBatchesLoop ==
    /\ call.fn = "createBatches"
    /\ call.st = "loop"
    /\ createBatchesTest(call)
    /\ Len(call.batches) < MaxIterations
    /\ call' = createBatchesPass(call)
    /\ UNCHANGED programVars

\* The loop test fails: return batches.
CreateBatchesReturn ==
    /\ call.fn = "createBatches"
    /\ call.st = "loop"
    /\ ~createBatchesTest(call)
    /\ call' = [call EXCEPT !.st = "returned"]
    /\ UNCHANGED programVars

\* The function is called a second time with the same arguments.
CreateBatchesAgain ==
    /\ call.fn = "createBatches"
    /\ call.st = "returned"
    /\ call.n = 1
    /\ call' = [call EXCEPT !.st = "called", !.n = 2, !.first = call.batches]
    /\ UNCHANGED programVars

\* generateSerialNumbers runs and returns.
GenerateSerialNumbers ==
    /\ call.fn = "generateSerialNumbers"
    /\ call.st = "called"
    /\ call' = [call EXCEPT
                   !.st = "returned",
                   !.result = generateSerialNumbers(call.count, call.prefix)]
    /\ UNCHANGED programVars

\* The function is called a second time with the same arguments.
GenerateSerialNumbersAgain ==
    /\ call.fn = "generateSerialNumbers"
    /\ call.st = "returned"
    /\ call.n = 1
    /\ call' = [call EXCEPT !.st = "called", !.n = 2, !.first = call.result,
                            !.result = <<>>]
    /\ UNCHANGED programVars

---------------------------------------------------------------------------
(* Specifications *)

\* The rate limiter with callers that submit tasks at any time.
Next ==
    \/ Schedule
    \/ SleepDone
    \/ TaskResolve
    \/ TaskReject
    \/ Tick
    \/ IdleTick

Spec == Init /\ [][Next]_vars

\* The same, with time passing, timers firing and tasks settling.
FairSpec ==
    /\ Init /\ [][Next]_vars
    /\ WF_vars(SleepDone)
    /\ WF_vars(TaskResolve \/ TaskReject)
    /\ WF_vars(Tick)

\* A caller of executeAll with up to MaxTasks tasks of its own.
ExecNext ==
    \/ ExecuteAll
    \/ SleepDone
    \/ TaskResolve
    \/ TaskReject
    \/ Tick

ExecSpec == Init /\ [][ExecNext]_vars

\* One run of the aggregator.
RunNext ==
    \/ RunStart
    \/ ProbeOk
    \/ ProbeFail
    \/ FetchOk
    \/ FetchFail
    \/ RetryTimer
    \/ SleepDone
    \/ MkdirDone
    \/ MkdirFail
    \/ WriteDone
    \/ WriteFail
    \/ Tick

RunSpec == Init /\ [][RunNext]_vars

\* BatchManager's functions called on their own, twice each.
UtilNext ==
    \/ CreateBatchesEnter
    \/ CreateBatchesLoop
    \/ CreateBatchesReturn
    \/ CreateBatchesAgain
    \/ GenerateSerialNumbers
    \/ GenerateSerialNumbersAgain

UtilSpec == UtilInit /\ [][UtilNext]_vars

---------------------------------------------------------------------------
(* Properties *)

TaskIds == 1..Len(tasks)
BatchIds == 1..Len(bt)

IsPrefix(a, b) == Len(a) <= Len(b) /\ \A k \in 1..Len(a) : a[k] = b[k]

\* The FailureEntry items of batch position b.
EntriesOf(b) == {k \in 1..Len(errors) : errors[k].batch = b}

Settled(t) == tasks[t].promise \in {"resolved", "rejected"}

\* C1: whenever a task is started after another one, the two values
\* lastRequestTime took (the start times) are at least intervalMs apart.
C1_StartsAtLeastIntervalApart ==
    Len(startOrder) >= 2 => lastRequestTime - prevRequestTime >= intervalMs

\* C2: at most one submitted task is executing, and at most one invocation
\* of _processQueue awaits a task; no two batch requests are in flight.
C2_AtMostOneTaskExecuting ==
    /\ Cardinality({t \in TaskIds : tasks[t].st = "running"}) <= 1
    /\ Cardinality({f \in loops : f.at = "task"}) <= 1
    /\ Cardinality({b \in BatchIds : bt[b].phase = "fetching"}) <= 1

\* A task is executing while two more, submitted meanwhile, wait in the queue.
C2_Witness ==
    /\ \E t \in TaskIds : tasks[t].st = "running"
    /\ Len(queue) = 2

\* C3: tasks are started in the order schedule() was called, and a task is
\* started only after every task submitted before it has settled.
C3_FifoStartAfterSettle ==
    /\ IsPrefix(startOrder, submitOrder)
    /\ \A i, j \in 1..Len(submitOrder) :
          (i < j /\ tasks[submitOrder[j]].st # "created")
              => /\ tasks[submitOrder[i]].st = "settled"
                 /\ Settled(submitOrder[i])

\* The second task runs after the first settled, while the third, submitted
\* with the drain active, waits in the queue.
C3_Witness ==
    /\ Len(submitOrder) = 3
    /\ tasks[1].st = "settled"
    /\ tasks[2].st = "running"
    /\ Len(queue) = 1

\* What C4 asks of every state: a promise settles with the outcome of its own
\* task, a settled task has settled its promise, and the loop is alive
\* (isProcessing is true exactly while a loop is) whenever entries wait.
C4_Delivery ==
    /\ \A t \in TaskIds :
          /\ tasks[t].promise = "rejected"
                => tasks[t].out = "err" /\ tasks[t].pval = TaskValue(t)
          /\ tasks[t].promise = "resolved"
                => tasks[t].out = "ok" /\ tasks[t].pval = TaskValue(t)
          /\ tasks[t].st = "settled" => Settled(t)
    /\ isProcessing <=> loops # {}
    /\ Len(queue) > 0 => isProcessing

AllSettledAndIdle ==
    /\ queue = <<>>
    /\ ~isProcessing
    /\ \A t \in TaskIds : tasks[t].st = "settled" /\ Settled(t)

\* C4: a task's error goes to its own promise only, and once a task has
\* thrown, the tasks still queued are all executed and settled with their
\* own outcome, the scheduler ending idle with isProcessing false.
C4_RejectionDoesNotStopQueue ==
    /\ []C4_Delivery
    /\ (\E t \in TaskIds : tasks[t].out = "err") ~> AllSettledAndIdle

\* The first task threw; the two queued behind it ran and resolved.
C4_Witness ==
    /\ Len(tasks) = 3
    /\ tasks[1].promise = "rejected"
    /\ tasks[2].promise = "resolved"
    /\ tasks[3].promise = "resolved"
    /\ ~isProcessing

\* C5: when executeAll has returned, its list has one result per task and
\* the i-th result is what the i-th task returned.
C5_ExecuteAllResultsInOrder ==
    ex.st = "returned"
        => /\ Len(ex.results) = Len(ex.tasks)
           /\ \A i \in 1..Len(ex.tasks) :
                 /\ tasks[ex.tasks[i]].out = "ok"
                 /\ ex.results[i] = tasks[ex.tasks[i]].val

\* executeAll returned the results of a failed batch followed by a
\* succeeded batch that needed a retry.
C5_Witness ==
    /\ ex.st = "returned"
    /\ bt[1].phase = "failed"
    /\ bt[2].phase = "succeeded"
    /\ bt[2].fails = 1
    /\ ex.results[2] # <<>>

\* C6: a batch with fewer than MAX_RETRIES failed attempts has not failed,
\* and a batch that succeeded after R failures returned the records of the
\* successful attempt with retryCount = R after R + 1 requests, with no
\* FailureEntry.
C6_SucceedsAfterRFailures ==
    \A b \in BatchIds :
        /\ bt[b].fails < MAX_RETRIES => bt[b].phase # "failed"
        /\ bt[b].phase = "succeeded"
              => /\ bt[b].retryCount = bt[b].fails
                 /\ bt[b].calls = bt[b].fails + 1
                 /\ tasks[bt[b].task].out = "ok"
                 /\ tasks[bt[b].task].val = bt[b].data
                 /\ EntriesOf(b) = {}

\* A batch succeeded at its third attempt.
C6_Witness ==
    \E b \in BatchIds :
        /\ bt[b].phase = "succeeded"
        /\ bt[b].fails = 2
        /\ bt[b].data # <<>>

\* C7: retryCount stays within 0..MAX_RETRIES; a batch is Failed exactly when
\* all of its MAX_RETRIES + 1 attempts failed, with retryCount = MAX_RETRIES
\* and one FailureEntry; no request is made for it afterwards.
C7_FailsAfterMaxRetries ==
    \A b \in BatchIds :
        /\ bt[b].retryCount \in 0..MAX_RETRIES
        /\ Cardinality(EntriesOf(b)) = (IF bt[b].phase = "failed" THEN 1 ELSE 0)
        /\ bt[b].phase = "failed"
              => /\ bt[b].retryCount = MAX_RETRIES
                 /\ bt[b].fails = MAX_RETRIES + 1
                 /\ bt[b].calls = MAX_RETRIES + 1
        /\ (bt[b].fails = bt[b].calls /\ bt[b].fails > MAX_RETRIES)
              => bt[b].phase = "failed"

\* A batch has failed for good and the run went on to its end.
C7_Witness ==
    /\ \E b \in BatchIds : bt[b].phase = "failed"
    /\ pc = "done"

\* C8: no batch task ever rejects; a failed batch returns [], and at the end
\* every batch has been fetched to a result that depends on its own attempts
\* only: its data if it succeeded, [] and one FailureEntry if it failed.
C8_FailureStaysInItsBatch ==
    /\ \A t \in TaskIds :
          tasks[t].kind = "batch"
              => tasks[t].out # "err" /\ tasks[t].promise # "rejected"
    /\ \A b \in BatchIds :
          bt[b].phase = "failed"
              => tasks[bt[b].task].out = "ok" /\ tasks[bt[b].task].val = <<>>
    /\ pc \in {"mkdir", "writeFile", "done"}
          => /\ Len(bt) = Len(batches)
             /\ \A b \in BatchIds :
                   /\ bt[b].phase \in {"succeeded", "failed"}
                   /\ ex.results[b] =
                         (IF bt[b].phase = "succeeded" THEN bt[b].data ELSE <<>>)
                   /\ Cardinality(EntriesOf(b)) =
                         (IF bt[b].phase = "succeeded" THEN 0 ELSE 1)

\* The first batch failed for good; the second then succeeded at once.
C8_Witness ==
    /\ pc = "done"
    /\ Len(bt) >= 2
    /\ bt[1].phase = "failed"
    /\ bt[2].phase = "succeeded"
    /\ bt[2].fails = 0
    /\ bt[2].data = Records(batches[2])
    /\ results # <<>>

\* C9: after a failed probe the run is at its fatal exit and nothing else
\* has happened: no serial numbers, no batches, no task, nothing submitted,
\* no batch request, no summary, nothing written.
C9_ProbeFailureAborts ==
    probe.st = "failed"
        => /\ pc = "fatal"
           /\ serialNumbers = <<>>
           /\ batches = <<>>
           /\ tasks = <<>>
           /\ submitOrder = <<>>
           /\ queue = <<>>
           /\ ~isProcessing
           /\ bt = <<>>
           /\ ex.st = "none"
           /\ report.summaries = <<>>
           /\ ~report.written

\* The probe failed and the run took the fatal exit.
C9_Witness == probe.st = "failed" /\ pc = "fatal"

\* The run is over: it returned, or left by process.exit(1).
RunOver == pc \in {"done", "fatal"}

\* An event of the run is due: the guards of the events of RunNext.
EventPending ==
    \/ pc = "init"
    \/ ProbeInFlight
    \/ \E b \in BatchIds : Fetching(b) \/ RetryDue(b)
    \/ \E f \in loops : SleepDue(f)
    \/ pc \in {"mkdir", "writeFile"}
    \/ TimePending

\* A bound on what is left of the run, in ms of waiting plus events to come.
Pos(x) == IF x > 0 THEN x ELSE 0
AttemptCost == MaxFetchMs + 1
RetryCost == RETRY_DELAY_MS + MaxLateMs + 1 + AttemptCost
BatchCost == AttemptCost + MAX_RETRIES * RetryCost
SleepCost == intervalMs + MaxLateMs + 1
NumBatches ==
    Len(createBatches(generateSerialNumbers(TOTAL_DEVICES, DEVICE_SN_PREFIX),
                      BATCH_SIZE))

BatchRank(b) ==
    CASE bt[b].phase = "pending" ->
             BatchCost +
             (IF \E f \in loops : f.at = "sleep" /\ f.entry.task = bt[b].task
              THEN LET f == CHOOSE g \in loops :
                                g.at = "sleep" /\ g.entry.task = bt[b].task
                   IN  Pos(f.wake + MaxLateMs - now) + 1
              ELSE SleepCost)
      [] bt[b].phase = "fetching" ->
             Pos(MaxFetchMs - (now - bt[b].sentAt)) + 1
                 + (MAX_RETRIES - bt[b].retryCount) * RetryCost
      [] bt[b].phase = "retryWait" ->
             Pos(bt[b].wake + MaxLateMs - now) + 1 + AttemptCost
                 + (MAX_RETRIES - bt[b].retryCount - 1) * RetryCost
      [] OTHER -> 0

RECURSIVE SumBatchRank(_)
SumBatchRank(b) == IF b = 0 THEN 0 ELSE BatchRank(b) + SumBatchRank(b - 1)

RunRank ==
    CASE pc = "init" -> AttemptCost + 4 + NumBatches * (SleepCost + BatchCost)
      [] pc = "probe" ->
             Pos(MaxFetchMs - (now - probe.sentAt)) + 4
                 + NumBatches * (SleepCost + BatchCost)
      [] pc = "fetchAllData" -> 3 + SumBatchRank(Len(bt))
      [] pc = "mkdir" -> 2
      [] pc = "writeFile" -> 1
      [] OTHER -> 0

\* C10: once the probe has succeeded the fatal exit is never taken; until
\* the run is over an event is always due, and every event brings the run
\* closer to its end (RunRank decreases), so the run ends whatever requests
\* fail; at the end the summary has been assembled and written.  The run
\* does end, but not always so: a 200 response without records takes it to
\* the fatal exit, and a rejected fs.mkdir ends it with no summary.
C10_RunCompletesAfterProbe ==
    /\ [](probe.st = "ok" => pc # "fatal")
    /\ [](~RunOver => EventPending)
    /\ [](RunRank >= 0)
    /\ [][RunRank' < RunRank]_vars
    /\ [](pc = "done" => Len(report.summaries) = 1 /\ report.written)

\* The records batch b contributed: what its successful attempt returned, in
\* the order the transport returned them, or nothing.
Contribution(b) == IF bt[b].phase = "succeeded" THEN bt[b].data ELSE <<>>

\* The contributions of batches 1..n, one after the other.
RECURSIVE ContributionsUpTo(_)
ContributionsUpTo(n) ==
    IF n = 0 THEN <<>> ELSE ContributionsUpTo(n - 1) \o Contribution(n)

\* C11: the report's data is the records of the succeeded batches in batch
\* order, each batch's records as the transport returned them and nothing
\* for a failed batch, and successfulFetches is the length of that list.
C11_ReportDataIsConcatenation ==
    \A k \in 1..Len(report.summaries) :
        /\ report.summaries[k].data = ContributionsUpTo(Len(bt))
        /\ report.summaries[k].successfulFetches
               = Len(ContributionsUpTo(Len(bt)))

\* The report was written after the first batch succeeded at once and the
\* second after a retry, each with a record per identifier.
C11_Witness ==
    /\ pc = "done"
    /\ report.written
    /\ Len(bt) = 2
    /\ bt[1].phase = "succeeded"
    /\ bt[1].data = Records(batches[1])
    /\ bt[2].phase = "succeeded"
    /\ bt[2].fails = 1
    /\ bt[2].data = Records(batches[2])
    /\ Len(report.summaries) = 1
    /\ report.summaries[1].successfulFetches = Len(bt[1].data) + Len(bt[2].data)
    /\ report.summaries[1].data = bt[1].data \o bt[2].data

\* The number of identifiers in the permanently failed batches among 1..n.
RECURSIVE FailedIdentifiersUpTo(_)
FailedIdentifiersUpTo(n) ==
    IF n = 0
    THEN 0
    ELSE FailedIdentifiersUpTo(n - 1)
             + (IF bt[n].phase = "failed" THEN Len(batches[n]) ELSE 0)

\* C12: the report's failedFetches is the number of identifiers in the
\* permanently failed batches: when one batch fails on every attempt and
\* the others succeed with a record per identifier, failedFetches is the
\* size of that batch (10 for a batch of BATCH_SIZE identifiers),
\* successfulFetches is the rest of the population, and errors has one
\* entry, for that batch and with its identifiers.
C12_FailedFetchesCountsIdentifiers ==
    \A k \in 1..Len(report.summaries) :
        /\ report.summaries[k].failedFetches = FailedIdentifiersUpTo(Len(bt))
        /\ \A b \in BatchIds :
              (/\ bt[b].phase = "failed"
               /\ \A c \in BatchIds \ {b} :
                     /\ bt[c].phase = "succeeded"
                     /\ bt[c].data = Records(batches[c]))
                  => /\ report.summaries[k].successfulFetches
                            = TOTAL_DEVICES - Len(batches[b])
                     /\ report.summaries[k].failedFetches = Len(batches[b])
                     /\ Len(report.summaries[k].errors) = 1
                     /\ report.summaries[k].errors[1].batch = b
                     /\ report.summaries[k].errors[1].serialNumbers
                            = batches[b]

\* What C13 asks of every state: an entry belongs to a permanently failed
\* batch and carries its 1-based position, its identifiers and the message
\* of its last failed attempt; the entries are in batch order, one a batch.
C13_Entries ==
    /\ \A k \in 1..Len(errors) :
          /\ errors[k].batch \in BatchIds
          /\ bt[errors[k].batch].phase = "failed"
          /\ errors[k].serialNumbers = batches[errors[k].batch]
          /\ errors[k].serialNumbers
                 = slice(serialNumbers, (errors[k].batch - 1) * BATCH_SIZE,
                         errors[k].batch * BATCH_SIZE)
          /\ errors[k].error = bt[errors[k].batch].lastError
    /\ \A k, l \in 1..Len(errors) :
          k < l => errors[k].batch < errors[l].batch

\* At report assembly: one entry for each failed batch, and the report's
\* errors are these entries.
C13_AtAssembly ==
    pc \in {"mkdir", "writeFile", "done"}
        => /\ \A b \in BatchIds :
                 Cardinality(EntriesOf(b))
                     = (IF bt[b].phase = "failed" THEN 1 ELSE 0)
           /\ \A k \in 1..Len(report.summaries) :
                 report.summaries[k].errors = errors

\* C13: at report assembly the errors list holds one FailureEntry for each
\* permanently failed batch and none for a succeeded one, in batch order,
\* each with the batch's 1-based position, its identifiers and the message
\* of its last failed attempt; an entry is never changed once pushed.
C13_FailureEntries ==
    /\ []C13_Entries
    /\ []C13_AtAssembly
    /\ [][IsPrefix(errors, errors')]_vars

\* The report was assembled with both batches failed, the first with a last
\* message that differs from its first one.
C13_Witness ==
    /\ pc = "done"
    /\ Len(report.summaries) = 1
    /\ Len(bt) = 2
    /\ bt[1].phase = "failed"
    /\ bt[1].firstError # bt[1].lastError
    /\ errors[1].error = bt[1].lastError
    /\ bt[2].phase = "failed"
    /\ Len(errors) = 2

\* createBatches has returned from a call with a chunk size of at least 1.
CreateBatchesReturned ==
    call.fn = "createBatches" /\ call.st = "returned" /\ call.batchSize >= 1

\* C14: for a chunk size K >= 1 the chunks createBatches returns are S cut
\* at every K-th element: all but the last have K elements, the last has 1
\* to K, together they are S in order, there is none exactly when S is
\* empty; S is as it was, and a second call returns the same chunks.
C14_CreateBatchesPartitions ==
    CreateBatchesReturned
        => LET S == call.input
               K == call.batchSize
               chunks == call.batches
               n == Len(chunks)
           IN  /\ \A j \in 1..(n - 1) : Len(chunks[j]) = K
               /\ n > 0 => Len(chunks[n]) \in 1..K
               /\ n > 0 => (n - 1) * K + Len(chunks[n]) = Len(S)
               /\ \A j \in 1..n : \A e \in 1..Len(chunks[j]) :
                      chunks[j][e] = S[(j - 1) * K + e]
               /\ (n = 0) <=> (S = <<>>)
               /\ call.array = S
               /\ chunks = createBatches(S, K)
               /\ call.n = 2 => chunks = call.first

\* Three elements were cut into a chunk of two and a chunk of one, twice.
C14_Witness ==
    /\ CreateBatchesReturned
    /\ call.n = 2
    /\ call.input = <<"a", "b", "a">>
    /\ call.batchSize = 2
    /\ call.batches = <<(<<"a", "b">>), (<<"a">>)>>
    /\ call.first = call.batches

\* C15: createBatches called with a chunk size K <= 0 fails at once with an
\* invalid-argument error, for every input sequence: it does not enter its
\* loop, pushes no chunk and returns no result.
C15_NonPositiveSizeRejected ==
    (call.fn = "createBatches" /\ call.batchSize <= 0)
        => /\ call.st \in {"called", "threw"}
           /\ call.batches = <<>>

\* The three decimal places of i < 1000, hundreds first.
ThreePlaces(i) ==
    Digits[(i \div 100) + 1] \o Digits[((i \div 10) % 10) + 1]
        \o Digits[(i % 10) + 1]

\* i < 10000 written with at least three decimal places.
ZeroPadded(i) ==
    IF i < 1000
    THEN ThreePlaces(i)
    ELSE Digits[(i \div 1000) + 1] \o ThreePlaces(i % 1000)

GenerateSerialNumbersReturned ==
    call.fn = "generateSerialNumbers" /\ call.st = "returned"

\* C16: generateSerialNumbers(N, prefix) returns N pairwise distinct
\* identifiers, the i-th (from 0) being prefix followed by i with zeros on
\* the left up to 3 digits: SN-000 .. SN-499 for 500 and "SN-", the empty
\* list for 0; a second call returns the same list.
C16_SerialNumbers ==
    GenerateSerialNumbersReturned
        => LET N == call.count
               ids == call.result
           IN  /\ Len(ids) = N
               /\ \A k \in 1..N : ids[k] = call.prefix \o ZeroPadded(k - 1)
               /\ Cardinality({ids[k] : k \in 1..N}) = N
               /\ N = 0 => ids = <<>>
               /\ (N = 500 /\ call.prefix = "SN-")
                     => /\ ids[1] = "SN-000"
                        /\ ids[11] = "SN-010"
                        /\ ids[500] = "SN-499"
               /\ call.n = 2 => ids = call.first

\* 500 identifiers with the prefix SN- were generated, twice.
C16_Witness ==
    /\ GenerateSerialNumbersReturned
    /\ call.n = 2
    /\ call.count = 500
    /\ call.prefix = "SN-"
    /\ call.result[500] = "SN-499"

\* A request goes out in this step.
RequestSent == lastRequest'.n = lastRequest.n + 1

\* The (signature, timestamp) pair of a request.
Pair(request) == <<request.signature, request.timestamp>>

\* C17: no two requests of a run (probe, first attempts, retries) carry the
\* same (signature, timestamp) pair.  Stated of each request and the one
\* sent before it: two of these with one pair refute it.
C17_NoTwoRequestsSharePair ==
    [][(RequestSent /\ lastRequest.n >= 1)
           => Pair(lastRequest') # Pair(lastRequest)]_vars

\* C18: every request sent to the API during a run (probe, first attempts,
\* retries) is sent at least REQUEST_INTERVAL_MS after the request before.
C18_EveryRequestAfterInterval ==
    [][(RequestSent /\ lastRequest.n >= 1)
           => lastRequest'.at - lastRequest.at >= REQUEST_INTERVAL_MS]_vars

\* What C19 asks of every state: one drain loop at most, isProcessing true
\* exactly while it runs, and a task that was submitted with a loop active
\* is taken and executed by that loop.
C19_OneLoop ==
    /\ Cardinality(loops) <= 1
    /\ isProcessing <=> loops # {}
    /\ \A t \in TaskIds :
          tasks[t].submittedTo # 0
              => /\ tasks[t].submittedTo <= drains
                 /\ tasks[t].st = "created"
                       => /\ isProcessing
                          /\ drains = tasks[t].submittedTo
                          /\ \/ \E k \in 1..Len(queue) : queue[k].task = t
                             \/ \E f \in loops : f.entry.task = t
                 /\ tasks[t].st # "created"
                       => tasks[t].drain = tasks[t].submittedTo

\* C19: a schedule() call made while a drain loop is active starts no
\* second loop: the step leaves the loop as it is and only makes the queue
\* longer, and in every state there is one loop at most, isProcessing being
\* true exactly while it runs, which executes the task queued.
C19_NoSecondDrainLoop ==
    /\ []C19_OneLoop
    /\ [][(isProcessing /\ Len(submitOrder') = Len(submitOrder) + 1)
              => /\ drains' = drains
                 /\ loops' = loops
                 /\ isProcessing'
                 /\ Len(queue') = Len(queue) + 1]_vars

\* The second and the third task were submitted while the loop started by
\* the first submission was active, and that loop has executed all three.
C19_Witness ==
    /\ Len(tasks) = 3
    /\ drains = 1
    /\ tasks[2].submittedTo = 1
    /\ tasks[3].submittedTo = 1
    /\ \A t \in TaskIds : tasks[t].st = "settled" /\ tasks[t].drain = 1
    /\ ~isProcessing

\* How many times task t was started.
Starts(t) == Cardinality({k \in 1..Len(startOrder) : startOrder[k] = t})

\* C20: no submission is lost.  A task is started once at most, a settled
\* task was started exactly once and has settled its promise, the queue is
\* empty whenever isProcessing is false; and (tasks terminating, timers
\* firing) every task submitted is in the end executed and settled,
\* whenever schedule() was called: with the loop active or after it ended.
C20_NoSubmissionLost ==
    /\ [](\A t \in TaskIds :
             /\ Starts(t) <= 1
             /\ tasks[t].st # "created" => Starts(t) = 1
             /\ Settled(t) => tasks[t].st = "settled")
    /\ [](~isProcessing => queue = <<>>)
    /\ \A t \in 1..MaxTasks :
          (Len(tasks) >= t)
              ~> (Len(tasks) >= t /\ tasks[t].st = "settled" /\ Settled(t))

\* Each of the three tasks was submitted after the loop that ran the one
\* before had found the queue empty and ended; all were executed.
C20_Witness ==
    /\ Len(tasks) = 3
    /\ drains = 3
    /\ \A t \in TaskIds :
          tasks[t].submittedTo = 0 /\ tasks[t].st = "settled" /\ Settled(t)
    /\ startOrder = <<1, 2, 3>>

\* Batch b is between its first attempt and its last one.
Attempting(b) == bt[b].phase \in {"fetching", "retryWait"}

\* What C21 asks of every state: while a batch is between its first and its
\* last attempt its task is the one the drain loop awaits, the last request
\* sent is its own, the batches before it are over and the ones after it
\* have been neither submitted nor started nor fetched; a wait for a retry
\* ends no later than RETRY_DELAY_MS from now.
C21_OneSlot ==
    \A b \in BatchIds :
        Attempting(b)
            => /\ tasks[bt[b].task].st = "running"
               /\ \E f \in loops : f.at = "task" /\ f.entry.task = bt[b].task
               /\ startOrder[Len(startOrder)] = bt[b].task
               /\ lastRequest.batch = b
               /\ bt[b].phase = "retryWait"
                     => bt[b].wake <= now + RETRY_DELAY_MS
               /\ \A c \in BatchIds :
                     /\ c < b => bt[c].phase \in {"succeeded", "failed"}
                     /\ c > b => /\ bt[c].phase = "pending"
                                 /\ bt[c].calls = 0
                                 /\ tasks[bt[c].task].st = "created"
                                 /\ tasks[bt[c].task].promise = "none"

\* C21: the wait set up after a failed attempt is RETRY_DELAY_MS whatever
\* retryCount is, and the retry is sent when that timer runs, no more than
\* MaxEarlyMs before the wait is over on the Date.now() clock; from the
\* first to the last attempt of a batch no other task is admitted (the
\* order of starts and lastRequestTime stay as they are) and no other batch
\* is fetched.
C21_FixedDelayInsideTheSlot ==
    /\ []C21_OneSlot
    /\ [][\A b \in BatchIds :
             /\ (bt[b].phase = "fetching" /\ bt'[b].phase = "retryWait")
                   => bt'[b].wake - now' = RETRY_DELAY_MS
             /\ (bt[b].phase = "retryWait" /\ bt'[b].phase = "fetching")
                   => /\ now' >= bt[b].wake - MaxEarlyMs
                      /\ bt'[b].retryCount = bt[b].retryCount + 1
             /\ (Attempting(b) /\ bt'[b].phase \in {"fetching", "retryWait"})
                   => /\ startOrder' = startOrder
                      /\ lastRequestTime' = lastRequestTime]_vars

\* The first batch waits for its third retry, RETRY_DELAY_MS from now,
\* with the second batch not submitted yet.
C21_Witness ==
    /\ Len(bt) = 2
    /\ bt[1].phase = "retryWait"
    /\ bt[1].retryCount = 2
    /\ bt[1].wake - now = RETRY_DELAY_MS
    /\ bt[2].phase = "pending"
    /\ tasks[bt[2].task].promise = "none"

\* Every batch has a task and all of them are over: no batch is pending,
\* being fetched or waiting for a retry, and the rate limiter is idle.
AllBatchesTerminal ==
    /\ Len(bt) = Len(batches)
    /\ Len(batches) = NumBatches
    /\ \A b \in BatchIds :
          /\ bt[b].phase \in {"succeeded", "failed"}
          /\ tasks[bt[b].task].st = "settled"
          /\ Settled(bt[b].task)
    /\ queue = <<>>
    /\ loops = {}
    /\ ~isProcessing

\* C22: the report is assembled once, when saveResults is past fs.mkdir,
\* and never again, by a step taken with every batch task in a terminal
\* state (none pending, running or waiting for a retry); from then on the
\* tasks stay as they are, errors receives no entry and the summary is not
\* changed.
C22_ReportAfterAllTerminal ==
    /\ [](Len(report.summaries) <= 1)
    /\ []((pc = "writeFile" \/ report.written) => Len(report.summaries) = 1)
    /\ []((pc \in {"mkdir", "writeFile", "done"} \/ report.summaries # <<>>)
             => AllBatchesTerminal)
    /\ [][Len(report.summaries') > Len(report.summaries)
             => /\ AllBatchesTerminal
                /\ ex.st = "returned"
                /\ report.summaries'[1].errors = errors]_vars
    /\ [][report.summaries # <<>>
             => /\ errors' = errors
                /\ bt' = bt
                /\ report.summaries' = report.summaries]_vars

\* The summary has been built, and is being written, after the first batch
\* succeeded at its second attempt and the second failed for good.
C22_Witness ==
    /\ pc = "writeFile"
    /\ Len(report.summaries) = 1
    /\ Len(bt) = 2
    /\ bt[1].phase = "succeeded" /\ bt[1].fails = 1
    /\ bt[2].phase = "failed"
    /\ Len(report.summaries[1].errors) = 1

\* The batches that failed for good.
FailedBatches == {b \in BatchIds : bt[b].phase = "failed"}

\* C23: the report's failedFetches is the number of FailureEntry items in
\* its errors list, which is the number of permanently failed batches.
C23_FailedFetchesCountsEntries ==
    \A k \in 1..Len(report.summaries) :
        /\ report.summaries[k].failedFetches
               = Len(report.summaries[k].errors)
        /\ report.summaries[k].failedFetches = Cardinality(FailedBatches)
        /\ {report.summaries[k].errors[e].batch :
                e \in 1..Len(report.summaries[k].errors)} = FailedBatches

\* The report counts one failed fetch: the batch of 10 identifiers that
\* failed for good, the other batch having returned its 3 records.
C23_Witness ==
    /\ pc = "done"
    /\ Len(report.summaries) = 1
    /\ FailedBatches = {1}
    /\ Len(batches[1]) = 10
    /\ report.summaries[1].failedFetches = 1
    /\ report.summaries[1].successfulFetches = 3

\* The tasks given to executeAll that returned / threw.
ExecResolved == {k \in 1..Len(ex.tasks) : tasks[ex.tasks[k]].out = "ok"}
ExecRejected == {k \in 1..Len(ex.tasks) : tasks[ex.tasks[k]].out = "err"}

\* C24: executeAll has called the progress callback once per completed
\* task, the k-th call with (k, N), N = tasks.length, made when exactly the
\* tasks 1..k have been started and have settled (after task k settled,
\* before task k+1 is started); with no tasks it is never called, and when
\* executeAll returns it has been called N times.
C24_ProgressAfterEachTask ==
    ex.st # "none"
        => /\ Len(ex.progress) = Cardinality(ExecResolved)
           /\ \A k \in 1..Len(ex.progress) :
                 /\ ex.progress[k].args = <<k, Len(ex.tasks)>>
                 /\ ex.progress[k].settled = k
                 /\ ex.progress[k].started = k
                 /\ k \in ExecResolved
           /\ Len(ex.tasks) = 0 => ex.progress = <<>>
           /\ ex.st = "returned" => Len(ex.progress) = Len(ex.tasks)

\* executeAll returned for 3 tasks and the callback has been called with
\* (1, 3), (2, 3) and (3, 3).
C24_Witness ==
    /\ ex.st = "returned"
    /\ Len(ex.tasks) = 3
    /\ Len(ex.progress) = 3
    /\ ex.progress[3].args = <<3, 3>>
    /\ tasks[3].promise = "resolved"

\* C25: all batches are queued upfront: once the first of the N tasks given
\* to executeAll is executed, all N have been submitted to the rate
\* limiter's queue.
C25_AllQueuedUpfront ==
    (ex.st # "none" /\ Len(startOrder) >= 1)
        => \A k \in 1..Len(ex.tasks) :
               \E j \in 1..Len(submitOrder) : submitOrder[j] = ex.tasks[k]

\* What C26 asks of a state: a task of executeAll has thrown exactly when
\* executeAll has rejected, and then with that task's error, the tasks after
\* it neither submitted nor started, the results not returned, and the
\* rate limiter idle.
C26_Rejected ==
    /\ (ExecRejected # {}) <=> (ex.st = "rejected")
    /\ ex.st = "rejected"
          => LET i == ex.i + 1
             IN  /\ ExecRejected = {i}
                 /\ ex.error = tasks[ex.tasks[i]].val
                 /\ ex.error # <<>>
                 /\ tasks[ex.tasks[i]].promise = "rejected"
                 /\ \A j \in (i + 1)..Len(ex.tasks) :
                       /\ tasks[ex.tasks[j]].st = "created"
                       /\ tasks[ex.tasks[j]].promise = "none"
                       /\ \A k \in 1..Len(submitOrder) :
                             submitOrder[k] # ex.tasks[j]
                       /\ \A k \in 1..Len(startOrder) :
                             startOrder[k] # ex.tasks[j]
                 /\ Len(ex.results) = ex.i
                 /\ Len(ex.results) < Len(ex.tasks)
                 /\ queue = <<>>
                 /\ loops = {}
                 /\ ~isProcessing

\* C26: if the i-th task given to executeAll rejects, executeAll rejects
\* with that error, the tasks after it are never submitted nor executed, no
\* result list is returned, and the scheduler is left idle with an empty
\* queue and isProcessing false, for good.
C26_RejectionStopsExecuteAll ==
    /\ []C26_Rejected
    /\ [][ex.st = "rejected"
              => /\ ex' = ex
                 /\ tasks' = tasks
                 /\ queue' = queue
                 /\ loops' = loops
                 /\ isProcessing' = isProcessing
                 /\ submitOrder' = submitOrder
                 /\ startOrder' = startOrder]_vars

\* The second of 3 tasks threw: executeAll rejected with its error after one
\* result, and the third task was never submitted.
C26_Witness ==
    /\ ex.st = "rejected"
    /\ Len(ex.tasks) = 3
    /\ ex.i = 1
    /\ ex.error = TaskValue(2)
    /\ tasks[3].st = "created"
    /\ queue = <<>>
    /\ ~isProcessing

====
